---- MODULE Spec2Model ----
(***************************************************************************)
(* Model of the TB X-ray backend: the /predict handler (backend/main.py),  *)
(* the Grad-CAM attribution engine, the radial placeholder, the overlay    *)
(* compositor and the heatmap writer (backend/utils.py), run against the   *)
(* single module-level classifier MODEL (backend/model.py).                *)
(*                                                                         *)
(* Numbers: tensors hold small integers.  The engine's arithmetic is       *)
(* carried out exactly (rationals as numerator/denominator pairs), where   *)
(* the code works in float32; quantisation to 8 bits is truncation.        *)
(***************************************************************************)
EXTENDS Integers, Sequences, FiniteSets, TLC

VARIABLES classifier, photo, hooksFwd, hooksBwd, paramGrad, rngState,
          running, task, files,
          pm,
          ov,
          cm

vars == <<classifier, photo, hooksFwd, hooksBwd, paramGrad, rngState,
          running, task, files, pm, ov, cm>>

\* what the service never touches: the states of the pure-function checks
pureVars == <<pm, ov, cm>>

(***************************************************************************)
(* Bounds of the model.                                                    *)
(***************************************************************************)
\* concurrent /predict requests in flight in one worker process
NTasks == 2
\* side of the preprocessed tensor (stands for Resize((224, 224)))
TensorSide == 3
\* largest width/height of an uploaded photograph
MaxPhoto == 2
\* distinct image contents
NData == 2
\* largest number of layers of a classifier
MaxLayers == 2
\* largest side of a placeholder map computed on its own
MaxSide == 10
\* largest side of a photograph handed to the compositor on its own
MaxImg == 2
\* largest side of a heatmap handed to the compositor on its own
MaxMap == 2
\* distinct contents of the photographs and heatmaps handed to the compositor
NSeeds == 2
\* largest height/width of an activation map handed to the Grad-CAM
\* arithmetic on its own
MaxCamSide == 2
\* largest number of channels of such an activation map
MaxChannels == 2
\* largest activation value of such a map
MaxAct == 2

Tasks == 1..NTasks

\* Python's None for a tensor, a map or a .grad buffer not (yet) there
None == <<>>

(***************************************************************************)
(* Small arithmetic helpers.                                               *)
(***************************************************************************)
Max2(a, b) == IF a >= b THEN a ELSE b
Min2(a, b) == IF a <= b THEN a ELSE b

RECURSIVE SeqSum(_)
SeqSum(s) == IF s = <<>> THEN 0 ELSE Head(s) + SeqSum(Tail(s))

RECURSIVE SeqMax(_)
SeqMax(s) == IF Len(s) = 1 THEN s[1] ELSE Max2(Head(s), SeqMax(Tail(s)))

RECURSIVE SeqMin(_)
SeqMin(s) == IF Len(s) = 1 THEN s[1] ELSE Min2(Head(s), SeqMin(Tail(s)))

(***************************************************************************)
(* Arrays.  An array is [shape, vals]: vals lists the elements in          *)
(* row-major order, so element (i, j) of an h x w map (0-based) is         *)
(* vals[i * w + j + 1].                                                    *)
(***************************************************************************)
Cell(a, i, j) == a.vals[i * a.shape[2] + j + 1]

\* numpy's astype(np.uint8) of a non-negative whole number
ToUint8(v) == v % 256

(***************************************************************************)
(* The radial placeholder (utils.py 63-70 and 84-92).                      *)
(***************************************************************************)
\* np.linspace(-1, 1, n)[k], k in 0..n-1, as <<numerator, denominator>>.
\* numpy returns the single point -1 when n = 1.
\* Variant: endpoint=False, the samples stopping short of 1.
LinspaceOpenEnd(n, k) == <<2 * k - n, n>>
Linspace(n, k) == IF n = 1 THEN <<-1, 1>> ELSE <<2 * k - (n - 1), n - 1>>

\* grid_x ** 2 + grid_y ** 2 at row i, column j, as <<numerator, denominator>>
RadiusSq(h, w, i, j) ==
    LET x == Linspace(w, j)
        y == Linspace(h, i)
    IN  <<x[1] * x[1] * y[2] * y[2] + y[1] * y[1] * x[2] * x[2],
          x[2] * x[2] * y[2] * y[2]>>

\* the least k in lo..hi with k * k * d >= 255 * 255 * n, for n <= d and
\* hi = 255: ceil(255 * sqrt(n / d))
RECURSIVE CeilScaledSqrt(_, _, _, _)
CeilScaledSqrt(n, d, lo, hi) ==
    IF lo >= hi THEN lo
    ELSE LET mid == (lo + hi) \div 2
         IN  IF mid * mid * d >= 255 * 255 * n
             THEN CeilScaledSqrt(n, d, lo, mid)
             ELSE CeilScaledSqrt(n, d, mid + 1, hi)

\* (np.clip(1.0 - radius, 0.0, 1.0) * 255).astype(np.uint8) at row i, column j
HeatCell(h, w, i, j) ==
    LET r2 == RadiusSq(h, w, i, j)
    IN  IF r2[1] >= r2[2] THEN 0
        ELSE ToUint8(255 - CeilScaledSqrt(r2[1], r2[2], 0, 255))

\* the map of height h and width w (np.meshgrid gives shape (h, w))
RadialPlaceholder(h, w) ==
    [shape |-> <<h, w>>,
     vals  |-> [k \in 1..(h * w) |-> HeatCell(h, w, (k - 1) \div w, (k - 1) % w)]]

(***************************************************************************)
(* The classifier.  It is the torch runtime's object; the model keeps what *)
(* the engine uses of it: its layers in modules() order, the geometry of   *)
(* each convolution's output, what its forward and backward passes hand    *)
(* to the observers, and how a pass can fail under autograd.               *)
(***************************************************************************)
LayerKinds == {"Conv2d", "Linear"}

\* how the passes of a classifier behave when gradients are recorded:
\*   ok         forward and backward succeed and reach the target layer
\*   regRaises  register_full_backward_hook raises (a non-full backward hook
\*              is already on the layer)
\*   fwdRaises  the forward pass raises under autograd
\*   bwdRaises  the backward pass raises after the forward pass succeeded
\*   noCapture  the last Conv2d takes no part in the forward pass
Modes == {"ok", "regRaises", "fwdRaises", "bwdRaises", "noCapture"}

LayerSeqs == UNION {[1..n -> LayerKinds] : n \in 1..MaxLayers}

\* _find_last_conv_layer: index of the last Conv2d in modules() order, 0 for None
RECURSIVE FindLastConvFrom(_, _, _)
FindLastConvFrom(layers, i, last) ==
    IF i > Len(layers) THEN last
    ELSE FindLastConvFrom(layers, i + 1,
                          IF layers[i] = "Conv2d" THEN i ELSE last)

FindLastConvLayer(layers) == FindLastConvFrom(layers, 1, 0)

Classifiers ==
    {c \in [layers : LayerSeqs, mode : Modes] :
        FindLastConvLayer(c.layers) = 0 => c.mode = "ok"}

\* every Conv2d halves the side of its input (rounding up)
RECURSIVE SideAfter(_, _, _)
SideAfter(layers, upto, side) ==
    IF upto = 0 THEN side
    ELSE LET before == SideAfter(layers, upto - 1, side)
         IN  IF layers[upto] = "Conv2d" THEN (before + 1) \div 2 ELSE before

\* height (= width) of the target layer's activation map for a tensor side
ActSide(c, side) == SideAfter(c.layers, FindLastConvLayer(c.layers), side)

NChannels == 2
NClasses == 2

\* dropout (model.py 24) scales what passes through it in training mode only;
\* load_model puts the classifier in inference mode (model.py 40, 48).
\* Variant: the eval() call missing.
ModelTrainingLeftOn == TRUE
ModelTraining == FALSE

\* the generator's state moves only when a pass draws a dropout mask
AdvanceRng(rng) == IF ModelTraining THEN (rng + 1) % 4 ELSE rng

DropoutScale(rng) == IF ModelTraining THEN 2 * ((rng \div 2) % 2) ELSE 1

\* the target layer's output for image content x: [channel -> row-major values]
Activation(x, n) ==
    [ch \in 1..NChannels |-> [p \in 1..n |-> (x + ch * p) % 3]]

\* the class scores of the forward pass
Logits(x, scale) ==
    [k \in 1..NClasses |-> scale * ((x + k) % NClasses)]

\* torch.argmax(logits, dim=1): the first index of the maximum
ArgMax(l) == CHOOSE k \in DOMAIN l :
                /\ \A m \in DOMAIN l : l[m] <= l[k]
                /\ \A m \in DOMAIN l : m < k => l[m] < l[k]

\* d logits[k] / d activation, as handed to the backward observer; scale is
\* the dropout scale the forward pass drew
Gradient(x, k, n, scale) ==
    [ch \in 1..NChannels |->
        [p \in 1..n |-> scale * (((x + k + ch + p) % 4) - 1)]]

(***************************************************************************)
(* Grad-CAM arithmetic (utils.py 48-60).  All maps below share the         *)
(* denominator n = H * W of the channel weights, which cancels in the      *)
(* normalisation; only numerators are carried.                             *)
(***************************************************************************)
\* gradients.mean(dim=(2, 3)): numerator of each channel's weight
Weights(grad) == [ch \in DOMAIN grad |-> SeqSum(grad[ch])]

\* (weights * activations).sum(dim=1)
WeightedSum(wts, act, n) ==
    [p \in 1..n |-> SeqSum([ch \in DOMAIN act |-> wts[ch] * act[ch][p]])]

\* torch.relu
Relu(m) == [p \in DOMAIN m |-> Max2(m[p], 0)]

\* the weighted, rectified map (utils.py 49-51)
Rectified(act, grad, n) == Relu(WeightedSum(Weights(grad), act, n))

\* cam -= cam.min().
\* Variant: the minimum left in the map.
KeepMin(m) == m
SubtractMin(m) == [p \in DOMAIN m |-> m[p] - SeqMin(m)]

\* the guard of the division: cam.max() > 0 (utils.py 55)
DividesByMax(m) == SeqMax(m) > 0

\* if cam.max() > 0: cam /= cam.max(); then (cam * 255).astype(np.uint8)
NormalizeQuantize(m) ==
    [p \in DOMAIN m |->
        IF DividesByMax(m) THEN ToUint8((255 * m[p]) \div SeqMax(m))
        ELSE ToUint8(255 * m[p])]

\* Tensor.squeeze(): drop every dimension of size one.
\* Variant: the [B, 1, H, W] shape returned as it is.
NoSqueeze(shape) == shape
Squeeze(shape) == SelectSeq(shape, LAMBDA d : d # 1)

\* the map _compute_gradcam returns from the captured tensors of a batch of
\* b images whose activation maps are ah x aw
GradCam(act, grad, b, ah, aw) ==
    LET n   == ah * aw
        cam == NormalizeQuantize(SubtractMin(Rectified(act, grad, n)))
    IN  [shape |-> Squeeze(<<b, 1, ah, aw>>), vals |-> cam]

(***************************************************************************)
(* The compositor (utils.py 95-111).  An image is [h, w, order, px]: px    *)
(* lists the pixels in row-major order, each a tuple of channel values in  *)
(* the channel order named by order ("RGB" or "BGR"; "L" for a PIL image   *)
(* of one grayscale channel).                                              *)
(***************************************************************************)
NoImage == [h |-> 0, w |-> 0, order |-> "none", px |-> <<>>]

\* what stands for the image when a cv2 call raises cv2.error
OverlayError == [h |-> 0, w |-> 0, order |-> "error", px |-> <<>>]

Clamp(v, lo, hi) == Max2(lo, Min2(v, hi))
Abs(v) == IF v < 0 THEN -v ELSE v

\* the value of the colour channel named ch ("R", "G", "B") of a pixel stored
\* in the given channel order
Channel(pixel, order, ch) ==
    IF order = "L" THEN pixel[1]
    ELSE IF ch = "G" THEN pixel[2]
    ELSE IF (order = "RGB") = (ch = "R") THEN pixel[1]
    ELSE pixel[3]

\* cv2.applyColorMap(gray, cv2.COLORMAP_JET) for one value: the jet ramps
\* (blue, then green, then red as the value grows), in BGR order
JetBGR(g) ==
    <<Clamp(382 - Abs(4 * g - 255), 0, 255),
      Clamp(382 - Abs(4 * g - 510), 0, 255),
      Clamp(382 - Abs(4 * g - 765), 0, 255)>>

\* colorize_heatmap (utils.py 95-99)
ColorizeHeatmap(gray) ==
    [h |-> gray.shape[1], w |-> gray.shape[2], order |-> "BGR",
     px |-> [k \in DOMAIN gray.vals |-> JetBGR(gray.vals[k])]]

\* pil_image.convert("RGB") (utils.py 107): a grayscale value is repeated in
\* the three channels, an RGB image is left as it is
ConvertRGB(img) ==
    IF img.order = "L"
    THEN [img EXCEPT !.order = "RGB",
                     !.px = [k \in DOMAIN img.px |->
                                <<img.px[k][1], img.px[k][1], img.px[k][1]>>]]
    ELSE img

\* cv2.cvtColor(rgb, cv2.COLOR_RGB2BGR) for one pixel.
\* Variant: the conversion left out.
KeepChannelOrder(pixel) == pixel
CvtColorRGB2BGR(pixel) == <<pixel[3], pixel[2], pixel[1]>>

\* round a non-negative num / den to the nearest whole number, halves to even
\* (cvRound)
RoundDiv(num, den) ==
    LET q == num \div den
        r == num % den
    IN  IF 2 * r > den \/ (2 * r = den /\ q % 2 = 1) THEN q + 1 ELSE q

\* where destination index i of dn samples falls among sn source samples
\* (bilinear, pixel centres aligned): <<lower index, upper index, weight of
\* the upper index in units of 1 / (2 * dn)>>
SourcePos(i, sn, dn) ==
    LET num == Max2((2 * i + 1) * sn - dn, 0)
        lo  == num \div (2 * dn)
    IN  IF lo >= sn - 1 THEN <<sn - 1, sn - 1, 0>>
        ELSE <<lo, lo + 1, num % (2 * dn)>>

\* cv2.resize(img, (dw, dh)) with the default bilinear interpolation
Resize(img, dh, dw) ==
    [h |-> dh, w |-> dw, order |-> img.order,
     px |-> [k \in 1..(dh * dw) |->
        LET y  == SourcePos((k - 1) \div dw, img.h, dh)
            x  == SourcePos((k - 1) % dw, img.w, dw)
            at(i, j) == img.px[i * img.w + j + 1]
        IN  [c \in 1..3 |->
                RoundDiv((2 * dh - y[3]) * (2 * dw - x[3]) * at(y[1], x[1])[c]
                         + (2 * dh - y[3]) * x[3] * at(y[1], x[2])[c]
                         + y[3] * (2 * dw - x[3]) * at(y[2], x[1])[c]
                         + y[3] * x[3] * at(y[2], x[2])[c],
                         4 * dh * dw)]]]

\* cv2.addWeighted(a, 1.0, b, alpha, 0) for one channel value, alpha in
\* hundredths: rounded, then saturated to 8 bits
AddWeighted(a, b, alpha) == Min2(RoundDiv(100 * a + alpha * b, 100), 255)

\* the dsize handed to cv2.resize, <<width, height>>: the converted
\* original's (bgr.shape[1], bgr.shape[0]) (utils.py 109).
\* Variant: the coloured map kept at its own size.
DSizeOfMap(bgr, heatmap) == <<heatmap.w, heatmap.h>>
DSize(bgr, heatmap) == <<bgr.w, bgr.h>>

\* overlay_heatmap_on_image (utils.py 102-111); the result is in BGR order.
\* cv2.addWeighted raises cv2.error unless its two inputs have the same
\* height, width and number of channels; its output has its inputs' size.
OverlayHeatmapOnImage(original, heatmap, alpha) ==
    LET rgb     == ConvertRGB(original)
        bgr     == [rgb EXCEPT !.order = "BGR",
                               !.px = [k \in DOMAIN rgb.px |->
                                          CvtColorRGB2BGR(rgb.px[k])]]
        dsize   == DSize(bgr, heatmap)
        resized == Resize(heatmap, dsize[2], dsize[1])
    IN  IF <<resized.h, resized.w>> # <<bgr.h, bgr.w>>
        THEN OverlayError
        ELSE [h |-> bgr.h, w |-> bgr.w, order |-> "BGR",
              px |-> [k \in DOMAIN bgr.px |->
                         [c \in 1..3 |->
                             AddWeighted(bgr.px[k][c], resized.px[k][c], alpha)]]]

(***************************************************************************)
(* The service: /predict requests handled by coroutines of one event loop  *)
(* against the module-level MODEL (main.py 40, 47-89).                     *)
(***************************************************************************)
\* an upload: no image content type, an empty body, or the photograph
RequestKinds == {"badtype", "empty", "image"}

\* the photograph of a run: its content x and its width and height in pixels;
\* every request of one run uploads the same photograph.  A field is 0 until
\* the handler first reads it, and is drawn then.
UnreadPhoto == [x |-> 0, pw |-> 0, ph |-> 0]

\* pil_image.size as <<height, width>>
PhotoSizes ==
    IF photo.pw = 0 THEN (1..MaxPhoto) \X (1..MaxPhoto)
    ELSE {<<photo.ph, photo.pw>>}

\* the content of the preprocessed tensor
PhotoContents == IF photo.x = 0 THEN 1..NData ELSE {photo.x}

\* the classifier's mutable state, as an attribution call can see it
ClassifierState ==
    [fwd |-> hooksFwd, bwd |-> hooksBwd, grad |-> paramGrad, rng |-> rngState]

NoMap == [shape |-> <<>>, vals |-> <<>>]
NoSnapshot == [fwd |-> {}, bwd |-> {}, grad |-> None, rng |-> 0]

IdleTask ==
    [pc |-> "idle", kind |-> "none",
     activations |-> None, gradients |-> None, target |-> 0, scale |-> 0,
     engine |-> "none", outcome |-> "none", result |-> NoMap,
     pre |-> NoSnapshot, post |-> NoSnapshot,
     status |-> 0, url |-> FALSE]

\* predict is a coroutine (async def, main.py 48): it runs on the event loop's
\* thread, and another coroutine runs only when the running one awaits or ends.
\* Variant: a plain def handler, which the framework runs in worker threads.
MayRunInThread(t) == TRUE
MayRun(t) == running = 0 \/ running = t

ServiceInit ==
    /\ classifier \in Classifiers
    /\ photo = UnreadPhoto
    /\ hooksFwd = {}
    /\ hooksBwd = {}
    /\ paramGrad = None
    /\ rngState = 0
    /\ running = 0
    /\ task = [t \in Tasks |-> IdleTask]
    /\ files = {}

\* a request arrives and its coroutine is created
Arrive(t) ==
    /\ task[t].pc = "idle"
    /\ \A u \in Tasks : u < t => task[u].pc # "idle"
    /\ \E k \in RequestKinds :
          task' = [task EXCEPT ![t].pc = "start", ![t].kind = k]
    /\ UNCHANGED <<pureVars, classifier, photo, hooksFwd, hooksBwd, paramGrad, rngState,
                   running, files>>

\* main.py 49-53: the content-type check, then await image.read()
Start(t) ==
    /\ task[t].pc = "start"
    /\ MayRun(t)
    /\ IF task[t].kind = "badtype"
       THEN task' = [task EXCEPT ![t].pc = "done", ![t].status = 400]
       ELSE task' = [task EXCEPT ![t].pc = "reading"]
    /\ running' = 0
    /\ UNCHANGED <<pureVars, classifier, photo, hooksFwd, hooksBwd, paramGrad, rngState, files>>

\* main.py 53-62: the read completes; empty check, preprocess_image,
\* model_predict (a forward pass under torch.no_grad())
ReadDone(t) ==
    /\ task[t].pc = "reading"
    /\ MayRun(t)
    /\ IF task[t].kind = "empty"
       THEN /\ task' = [task EXCEPT ![t].pc = "done", ![t].status = 400]
            /\ running' = 0
            /\ UNCHANGED rngState
       ELSE /\ task' = [task EXCEPT ![t].pc = "gc_find"]
            /\ running' = t
            /\ rngState' = AdvanceRng(rngState)
    /\ UNCHANGED <<pureVars, classifier, photo, hooksFwd, hooksBwd, paramGrad, files>>

\* the height and width the except block reads off input_tensor.shape
\* (utils.py 63)
TensorDims == <<TensorSide, TensorSide>>

\* the height and width of generate_gradcam_heatmap's own placeholder
\* (utils.py 83-84): the photograph's size.  Variant: the tensor's instead.
FallbackDimsFromTensor(size) == <<TensorSide, TensorSide>>
FallbackDims(size) == size

\* utils.py 76-92: generate_gradcam_heatmap up to the call of _compute_gradcam,
\* or its own placeholder when the classifier has no Conv2d
FindLayer(t) ==
    /\ task[t].pc = "gc_find"
    /\ MayRun(t)
    /\ IF FindLastConvLayer(classifier.layers) = 0
       THEN \E size \in PhotoSizes :
               LET d == FallbackDims(size)
               IN  /\ photo' = [photo EXCEPT !.ph = size[1], !.pw = size[2]]
                   /\ task' = [task EXCEPT
                                  ![t].pc = "save",
                                  ![t].engine = "returned",
                                  ![t].outcome = "placeholder",
                                  ![t].result = RadialPlaceholder(d[1], d[2]),
                                  ![t].pre = ClassifierState,
                                  ![t].post = ClassifierState]
       ELSE /\ task' = [task EXCEPT ![t].pc = "gc_reg_fwd",
                                    ![t].engine = "running",
                                    ![t].pre = ClassifierState]
            /\ UNCHANGED photo
    /\ running' = t
    /\ UNCHANGED <<pureVars, classifier, hooksFwd, hooksBwd, paramGrad, rngState, files>>

\* utils.py 18-29: fresh capture slots, register_forward_hook
RegisterForward(t) ==
    /\ task[t].pc = "gc_reg_fwd"
    /\ MayRun(t)
    /\ hooksFwd' = hooksFwd \cup {t}
    /\ task' = [task EXCEPT ![t].pc = "gc_reg_bwd",
                            ![t].activations = None,
                            ![t].gradients = None]
    /\ running' = t
    /\ UNCHANGED <<pureVars, classifier, photo, hooksBwd, paramGrad, rngState, files>>

\* utils.py 31-34: register_full_backward_hook, outside the try block; what it
\* raises leaves _compute_gradcam and generate_gradcam_heatmap and reaches
\* predict's except clause (main.py 87-89)
RegisterBackward(t) ==
    /\ task[t].pc = "gc_reg_bwd"
    /\ MayRun(t)
    /\ IF classifier.mode = "regRaises"
       THEN /\ task' = [task EXCEPT ![t].pc = "done",
                                    ![t].engine = "raised",
                                    ![t].post = ClassifierState,
                                    ![t].status = 500]
            /\ running' = 0
            /\ UNCHANGED hooksBwd
       ELSE /\ hooksBwd' = hooksBwd \cup {t}
            /\ task' = [task EXCEPT ![t].pc = "gc_zero"]
            /\ running' = t
    /\ UNCHANGED <<pureVars, classifier, photo, hooksFwd, paramGrad, rngState, files>>

\* utils.py 37: model.zero_grad(set_to_none=True)
ZeroGrad(t) ==
    /\ task[t].pc = "gc_zero"
    /\ MayRun(t)
    /\ paramGrad' = None
    /\ task' = [task EXCEPT ![t].pc = "gc_forward"]
    /\ running' = t
    /\ UNCHANGED <<pureVars, classifier, photo, hooksFwd, hooksBwd, rngState, files>>

\* the target layer's activation map is ActSide x ActSide
ActCells == ActSide(classifier, TensorSide) * ActSide(classifier, TensorSide)

\* utils.py 38-42 (and 21-23): the forward pass fires every forward observer
\* registered on the target layer; then the target class is chosen
ForwardPass(t) ==
    /\ task[t].pc = "gc_forward"
    /\ MayRun(t)
    /\ IF classifier.mode = "fwdRaises"
       THEN /\ task' = [task EXCEPT ![t].pc = "gc_except"]
            /\ UNCHANGED <<rngState, photo>>
       ELSE \E x \in PhotoContents :
            /\ photo' = [photo EXCEPT !.x = x]
            /\ task' =
                [u \in Tasks |->
                    LET seen == IF u \in hooksFwd /\ classifier.mode # "noCapture"
                                THEN [task[u] EXCEPT
                                        !.activations = Activation(x, ActCells)]
                                ELSE task[u]
                    IN  IF u = t
                        THEN [seen EXCEPT
                                !.pc = "gc_backward",
                                !.scale = DropoutScale(rngState),
                                !.target = ArgMax(Logits(x, DropoutScale(rngState)))]
                        ELSE seen]
            /\ rngState' = AdvanceRng(rngState)
    /\ running' = t
    /\ UNCHANGED <<pureVars, classifier, hooksFwd, hooksBwd, paramGrad, files>>

\* what backward() adds to the parameters' .grad buffers
ParamGradient(x, k) == x + k

\* utils.py 43-44 (and 25-27): backward from the target score accumulates into
\* the parameters' .grad and fires every backward observer on the target layer
BackwardPass(t) ==
    /\ task[t].pc = "gc_backward"
    /\ MayRun(t)
    /\ IF classifier.mode = "bwdRaises"
       THEN /\ task' = [task EXCEPT ![t].pc = "gc_except"]
            /\ UNCHANGED paramGrad
       ELSE /\ paramGrad' =
                LET g == ParamGradient(photo.x, task[t].target)
                IN  IF paramGrad = None THEN <<g>> ELSE <<paramGrad[1] + g>>
            /\ task' =
                [u \in Tasks |->
                    LET seen == IF u \in hooksBwd /\ classifier.mode # "noCapture"
                                THEN [task[u] EXCEPT
                                        !.gradients =
                                            Gradient(photo.x, task[t].target,
                                                     ActCells, task[t].scale)]
                                ELSE task[u]
                    IN  IF u = t THEN [seen EXCEPT !.pc = "gc_cam"] ELSE seen]
    /\ running' = t
    /\ UNCHANGED <<pureVars, classifier, photo, hooksFwd, hooksBwd, rngState, files>>

\* utils.py 46-60: the capture assertion, then weighting, rectifying,
\* normalising and quantising; the return value waits for the finally block
ComputeCam(t) ==
    /\ task[t].pc = "gc_cam"
    /\ MayRun(t)
    /\ IF task[t].activations = None \/ task[t].gradients = None
       THEN task' = [task EXCEPT ![t].pc = "gc_except"]
       ELSE task' = [task EXCEPT
                        ![t].pc = "gc_finally",
                        ![t].outcome = "cam",
                        ![t].result =
                            GradCam(task[t].activations, task[t].gradients, 1,
                                    ActSide(classifier, TensorSide),
                                    ActSide(classifier, TensorSide))]
    /\ running' = t
    /\ UNCHANGED <<pureVars, classifier, photo, hooksFwd, hooksBwd, paramGrad, rngState, files>>

\* utils.py 61-70: any exception of the try block gives the placeholder, sized
\* by the input tensor
Except(t) ==
    /\ task[t].pc = "gc_except"
    /\ MayRun(t)
    /\ LET d == TensorDims
       IN  task' = [task EXCEPT ![t].pc = "gc_finally",
                                ![t].outcome = "placeholder",
                                ![t].result = RadialPlaceholder(d[1], d[2])]
    /\ running' = t
    /\ UNCHANGED <<pureVars, classifier, photo, hooksFwd, hooksBwd, paramGrad, rngState, files>>

\* utils.py 71-73: both handles are removed, then the call returns
Finally(t) ==
    /\ task[t].pc = "gc_finally"
    /\ MayRun(t)
    /\ hooksFwd' = hooksFwd \ {t}
    /\ hooksBwd' = hooksBwd \ {t}
    /\ task' = [task EXCEPT
                    ![t].pc = "save",
                    ![t].engine = "returned",
                    ![t].post = [fwd |-> hooksFwd', bwd |-> hooksBwd',
                                 grad |-> paramGrad, rng |-> rngState]]
    /\ running' = t
    /\ UNCHANGED <<pureVars, classifier, photo, paramGrad, rngState, files>>

\* what the file system does with the write:
\*   written       cv2.imwrite writes the file and returns True
\*   notWritten    cv2.imwrite cannot write and returns False
\*   mkdirRaises   save_path.parent.mkdir raises OSError
SaveOutcomes == {"written", "notWritten", "mkdirRaises"}

\* the value save_heatmap hands back for an outcome: it drops cv2.imwrite's
\* return value (utils.py 120, 122), so only mkdir's exception gets out
SaveRaises(outcome) == outcome = "mkdirRaises"

\* main.py 66-68 and utils.py 114-122: save_heatmap
Save(t) ==
    /\ task[t].pc = "save"
    /\ MayRun(t)
    /\ \E outcome \in SaveOutcomes :
          /\ files' = IF outcome = "written" THEN files \cup {t} ELSE files
          /\ IF SaveRaises(outcome)
             THEN /\ task' = [task EXCEPT ![t].pc = "done", ![t].status = 500]
                  /\ running' = 0
             ELSE /\ task' = [task EXCEPT ![t].pc = "explain"]
                  /\ running' = t
    /\ UNCHANGED <<pureVars, classifier, photo, hooksFwd, hooksBwd, paramGrad, rngState>>

\* main.py 70-83: the explanation (which recovers from its own failures,
\* gemini.py 219-231) and the response carrying heatmap_url
Respond(t) ==
    /\ task[t].pc = "explain"
    /\ MayRun(t)
    /\ task' = [task EXCEPT ![t].pc = "done", ![t].status = 200, ![t].url = TRUE]
    /\ running' = 0
    /\ UNCHANGED <<pureVars, classifier, photo, hooksFwd, hooksBwd, paramGrad, rngState, files>>

PmIdle == [h |-> 0, w |-> 0, heat |-> None]
OvIdle == [orig |-> NoImage, heat |-> NoImage, alpha |-> 0, out |-> NoImage]

CmIdle == [ah |-> 0, aw |-> 0, captured |-> FALSE, act |-> None, grad |-> None,
           rect |-> None, shifted |-> None, divided |-> FALSE,
           outcome |-> "none", result |-> NoMap]

Init ==
    /\ ServiceInit
    /\ pm = PmIdle
    /\ ov = OvIdle
    /\ cm = CmIdle

Next ==
    \E t \in Tasks :
        \/ Arrive(t)
        \/ Start(t)
        \/ ReadDone(t)
        \/ FindLayer(t)
        \/ RegisterForward(t)
        \/ RegisterBackward(t)
        \/ ZeroGrad(t)
        \/ ForwardPass(t)
        \/ BackwardPass(t)
        \/ ComputeCam(t)
        \/ Except(t)
        \/ Finally(t)
        \/ Save(t)
        \/ Respond(t)

Spec == Init /\ [][Next]_vars

(***************************************************************************)
(* The radial placeholder on its own: every height and width up to         *)
(* MaxSide.                                                                *)
(***************************************************************************)
\* the service at rest, for the checks of the pure functions
ServiceParked ==
    /\ classifier = [layers |-> <<"Linear">>, mode |-> "ok"]
    /\ photo = UnreadPhoto
    /\ hooksFwd = {}
    /\ hooksBwd = {}
    /\ paramGrad = None
    /\ rngState = 0
    /\ running = 0
    /\ task = [t \in Tasks |-> IdleTask]
    /\ files = {}

ServiceUnchanged ==
    UNCHANGED <<classifier, photo, hooksFwd, hooksBwd, paramGrad, rngState,
                running, task, files>>

PlaceholderInit ==
    /\ ServiceParked
    /\ pm = PmIdle
    /\ ov = OvIdle
    /\ cm = CmIdle

\* utils.py 63-70 / 84-92 for one height and width
ComputePlaceholder ==
    /\ \E h \in 1..MaxSide, w \in 1..MaxSide :
          pm' = [h |-> h, w |-> w, heat |-> RadialPlaceholder(h, w)]
    /\ ServiceUnchanged
    /\ UNCHANGED <<ov, cm>>

PlaceholderNext == ComputePlaceholder

SpecPlaceholder == PlaceholderInit /\ [][PlaceholderNext]_vars

(***************************************************************************)
(* The compositor on its own: photographs and heatmaps of every size up to *)
(* MaxImg and MaxMap, and the opacities the program uses besides 0 and 1.  *)
(***************************************************************************)
\* RGB colours of the photographs' pixels
Colours == <<<<255, 128, 0>>, <<10, 200, 250>>, <<0, 0, 0>>, <<90, 90, 90>>>>

\* a photograph (PIL, mode RGB after model.py 74 / 100)
Photograph(h, w, seed) ==
    [h |-> h, w |-> w, order |-> "RGB",
     px |-> [k \in 1..(h * w) |-> Colours[((seed + k) % Len(Colours)) + 1]]]

\* a photograph of one grayscale channel (PIL mode L)
GrayPhotograph(h, w, seed) ==
    [h |-> h, w |-> w, order |-> "L",
     px |-> [k \in 1..(h * w) |-> <<(seed * 53 + k * 101) % 256>>]]

\* the PIL modes of the photographs handed to the compositor
PhotoModes == {"RGB", "L"}

\* a grayscale map of 8-bit values
GrayMap(h, w, seed) ==
    [shape |-> <<h, w>>,
     vals |-> [k \in 1..(h * w) |-> (seed * 97 + k * 64) % 256]]

\* opacities in hundredths: none, the default 0.4 (utils.py 102), the
\* service's 0.45 (main.py 68), full
Alphas == {0, 40, 45, 100}

OverlayInit ==
    /\ ServiceParked
    /\ pm = PmIdle
    /\ ov = OvIdle
    /\ cm = CmIdle

Overlay ==
    /\ ov = OvIdle
    /\ \E oh \in 1..MaxImg, ow \in 1..MaxImg, os \in 1..NSeeds,
          hh \in 1..MaxMap, hw \in 1..MaxMap, hs \in 1..NSeeds,
          alpha \in Alphas, mode \in PhotoModes :
          LET original == IF mode = "L" THEN GrayPhotograph(oh, ow, os)
                          ELSE Photograph(oh, ow, os)
              heatmap  == ColorizeHeatmap(GrayMap(hh, hw, hs))
          IN  ov' = [orig |-> original, heat |-> heatmap, alpha |-> alpha,
                     out |-> OverlayHeatmapOnImage(original, heatmap, alpha)]
    /\ ServiceUnchanged
    /\ UNCHANGED <<pm, cm>>

OverlayNext == Overlay

SpecOverlay == OverlayInit /\ [][OverlayNext]_vars

(***************************************************************************)
(* The Grad-CAM arithmetic on its own (utils.py 46-70): the tensors the    *)
(* two observers captured, of every height and width up to MaxCamSide and  *)
(* up to MaxChannels channels, or nothing captured.  Gradients are whole   *)
(* numbers of halves; the unit cancels in the normalisation.  A channel's  *)
(* gradient enters the map only through its mean, so the gradients drawn   *)
(* are the same in every cell of a channel.                                *)
(***************************************************************************)
\* the gradients of a channel, in halves: -0.5, 0, 0.5
GradHalves == {-1, 0, 1}

\* one channel of a captured tensor, n cells in row-major order: the same
\* value v in every cell ("flat"), or v in the first cell and 0 elsewhere
\* ("spot")
Plane(n, v, kind) ==
    [p \in 1..n |-> IF kind = "flat" \/ p = 1 THEN v ELSE 0]

\* the activations of a channel: every flat plane up to MaxAct, and the spot
ActPlanes(n) ==
    {Plane(n, v, "flat") : v \in 0..MaxAct} \cup {Plane(n, 1, "spot")}

\* the gradients of a channel
GradPlanes(n) == {Plane(n, g, "flat") : g \in GradHalves}

CamInit ==
    /\ ServiceParked
    /\ pm = PmIdle
    /\ ov = OvIdle
    /\ cm = CmIdle

\* utils.py 46-60: the tensors were captured; the map is weighted, rectified,
\* normalised and quantised, and returned
CamFromCapture ==
    /\ cm = CmIdle
    /\ \E ah \in 1..MaxCamSide, aw \in 1..MaxCamSide, nch \in 1..MaxChannels :
       \E act \in [1..nch -> ActPlanes(ah * aw)],
          grad \in [1..nch -> GradPlanes(ah * aw)] :
          LET n       == ah * aw
              rect    == Rectified(act, grad, n)
              shifted == SubtractMin(rect)
          IN  cm' = [ah |-> ah, aw |-> aw, captured |-> TRUE,
                     act |-> act, grad |-> grad,
                     rect |-> rect, shifted |-> shifted,
                     divided |-> DividesByMax(shifted),
                     outcome |-> "cam",
                     result |-> GradCam(act, grad, 1, ah, aw)]
    /\ ServiceUnchanged
    /\ UNCHANGED <<pm, ov>>

\* utils.py 46 and 61-70: an observer captured nothing; the assertion fails
\* and the except block returns the placeholder sized by the tensor
CamFromNothing ==
    /\ cm = CmIdle
    /\ \E ah \in 1..MaxCamSide, aw \in 1..MaxCamSide :
          cm' = [CmIdle EXCEPT
                    !.ah = ah, !.aw = aw,
                    !.outcome = "placeholder",
                    !.result = RadialPlaceholder(TensorDims[1], TensorDims[2])]
    /\ ServiceUnchanged
    /\ UNCHANGED <<pm, ov>>

CamNext ==
    \/ CamFromCapture
    \/ CamFromNothing

SpecCam == CamInit /\ [][CamNext]_vars

(***************************************************************************)
(* Claims about the attribution engine and the service.                    *)
(***************************************************************************)
HasConv == FindLastConvLayer(classifier.layers) # 0

\* the attribution call of task t is over: it returned or it raised
Ended(t) == task[t].engine \in {"returned", "raised"}

\* the steps between registering the first observer and removing both
SequencePcs == {"gc_reg_bwd", "gc_zero", "gc_forward", "gc_backward",
                "gc_cam", "gc_except", "gc_finally"}

\* C1: once an attribution call has returned or raised, on whatever path,
\* neither of its two observers is still registered on the target layer.
C1_NoObserverOutlivesCall ==
    \A t \in Tasks : Ended(t) => (t \notin hooksFwd /\ t \notin hooksBwd)

\* C2: no exception of an attribution step leaves the engine: a call never
\* ends by raising, and a call whose step failed returns the radial
\* placeholder sized by the tensor.
C2_NeverPropagates ==
    \A t \in Tasks :
        /\ task[t].engine # "raised"
        /\ (task[t].engine = "returned" /\ HasConv /\ classifier.mode # "ok")
              => task[t].result = RadialPlaceholder(TensorSide, TensorSide)

\* C3: at most one request is inside the instrument -> zero-grad -> forward
\* -> backward -> uninstrument sequence on MODEL at any time.
C3_SequencesSerialized ==
    Cardinality({t \in Tasks : task[t].pc \in SequencePcs}) <= 1

\* C3 witness: one request is in the middle of the sequence while another
\* request is in flight, parked at its await.
C3_Witness ==
    \E t, u \in Tasks :
        /\ t # u
        /\ task[t].pc = "gc_backward"
        /\ task[u].pc = "reading"

\* C4: when an attribution call is over, the classifier's observers,
\* accumulated-gradient buffers and generator state are what they were when
\* the call began.
C4_NoPersistentMutation ==
    \A t \in Tasks : Ended(t) => task[t].post = task[t].pre

\* the shape a returned Grad-CAM map has for an ah x aw activation map of a
\* batch of one
ExpectedCamShape(ah, aw) ==
    IF ah > 1 /\ aw > 1 THEN <<ah, aw>>
    ELSE IF ah > 1 THEN <<ah>>
    ELSE IF aw > 1 THEN <<aw>>
    ELSE <<>>

InByteRange(m) == \A k \in DOMAIN m.vals : m.vals[k] \in 0..255

C6_Idempotent ==
    \A t, u \in Tasks :
        (task[t].engine = "returned" /\ task[u].engine = "returned")
            => task[t].result = task[u].result

\* C6 witness: two calls have returned a Grad-CAM map that is not all zero,
\* the second after the first left its gradients behind.
C6_Witness ==
    \E t, u \in Tasks :
        /\ t # u
        /\ task[t].engine = "returned" /\ task[t].outcome = "cam"
        /\ task[u].engine = "returned" /\ task[u].outcome = "cam"
        /\ \E k \in DOMAIN task[u].result.vals : task[u].result.vals[k] > 0
        /\ task[u].pre.grad # None

\* v is within one of 255 * clip(1 - sqrt(x^2 + y^2), 0, 1) at row i and
\* column j of an h x w grid, x and y running linearly from -1 to 1 over the
\* columns and the rows (a single column or row sits at -1)
NearRadial(v, h, w, i, j) ==
    LET xn == IF w = 1 THEN -1 ELSE 2 * j - (w - 1)
        xd == IF w = 1 THEN 1 ELSE w - 1
        yn == IF h = 1 THEN -1 ELSE 2 * i - (h - 1)
        yd == IF h = 1 THEN 1 ELSE h - 1
        n  == xn * xn * yd * yd + yn * yn * xd * xd
        d  == xd * xd * yd * yd
    IN  /\ v \in 0..255
        /\ IF n >= d THEN v <= 1
           ELSE /\ 255 * 255 * n <= (256 - v) * (256 - v) * d
                /\ v >= 254 \/ 255 * 255 * n >= (254 - v) * (254 - v) * d

IsRadialMap(m, h, w) ==
    /\ m.shape = <<h, w>>
    /\ Len(m.vals) = h * w
    /\ \A i \in 0..(h - 1), j \in 0..(w - 1) : NearRadial(Cell(m, i, j), h, w, i, j)

C8_OriginalCenter255 ==
    pm.h > 0 => Cell(pm.heat, pm.h \div 2, pm.w \div 2) = 255

\* C8 amended: for every odd height and odd width of at least 3 the
\* placeholder's value at row height/2, column width/2 is 255.
C8_OddCenter255 ==
    (pm.h >= 3 /\ pm.h % 2 = 1 /\ pm.w >= 3 /\ pm.w % 2 = 1)
        => Cell(pm.heat, pm.h \div 2, pm.w \div 2) = 255

\* C8 witness: a placeholder of odd, unequal height and width was computed
\* and its centre holds 255.
C8_Witness ==
    /\ pm.h >= 3 /\ pm.h % 2 = 1 /\ pm.w >= 3 /\ pm.w % 2 = 1
    /\ pm.h # pm.w
    /\ Cell(pm.heat, pm.h \div 2, pm.w \div 2) = 255

\* C9: a response carries heatmap_url only for a file that was written: a
\* failed write surfaces from save_heatmap as an error.
C9_NoUrlWithoutFile ==
    \A t \in Tasks : task[t].url => t \in files

ColourChannels == {"R", "G", "B"}

\* C10: with alpha = 0 the overlay has the original's size and every colour
\* channel of every pixel holds the original's value of that channel (the
\* overlay stores its channels in BGR order, the original in RGB order).
C10_AlphaZeroIsOriginal ==
    (ov.out.h > 0 /\ ov.alpha = 0) =>
        /\ ov.out.h = ov.orig.h
        /\ ov.out.w = ov.orig.w
        /\ DOMAIN ov.out.px = DOMAIN ov.orig.px
        /\ \A k \in DOMAIN ov.orig.px : \A ch \in ColourChannels :
              Channel(ov.out.px[k], ov.out.order, ch)
                  = Channel(ov.orig.px[k], ov.orig.order, ch)

\* C10 witness: an overlay with alpha = 0 of a photograph with a pixel whose
\* red and blue differ, under a heatmap of another size that is not black.
C10_Witness ==
    /\ ov.out.h > 0
    /\ ov.alpha = 0
    /\ ov.orig.order = "RGB"
    /\ \E k \in DOMAIN ov.orig.px : ov.orig.px[k][1] # ov.orig.px[k][3]
    /\ \E k \in DOMAIN ov.heat.px : ov.heat.px[k] # <<0, 0, 0>>
    /\ <<ov.heat.h, ov.heat.w>> # <<ov.orig.h, ov.orig.w>>

\* C11: for every original image and every heatmap, whatever the heatmap's
\* height and width, the overlay has exactly the original's height and width
\* and three channels in every pixel.
C11_OverlayHasOriginalSize ==
    ov.orig.h > 0 =>
        /\ ov.out.h = ov.orig.h
        /\ ov.out.w = ov.orig.w
        /\ Len(ov.out.px) = ov.orig.h * ov.orig.w
        /\ \A k \in DOMAIN ov.out.px : Len(ov.out.px[k]) = 3

\* C11 witness: an overlay of a grayscale original that is not square under
\* a map that is taller and narrower than the original.
C11_Witness ==
    /\ ov.orig.h > 0
    /\ ov.orig.order = "L"
    /\ ov.orig.h # ov.orig.w
    /\ ov.heat.h > ov.orig.h
    /\ ov.heat.w < ov.orig.w
    /\ <<ov.out.h, ov.out.w>> = <<ov.orig.h, ov.orig.w>>

\* every cell of the map holds the same value
IsUniform(m) == \A p, q \in DOMAIN m : m[p] = m[q]

\* C12: whenever the weighted, rectified map is uniform (one value v >= 0 in
\* every cell, the all-zero map included), subtracting the minimum leaves 0
\* everywhere, the division is skipped, and the engine returns the map of
\* zeros as its attribution result: no failure, no radial placeholder.
C12_UniformMapGivesZeroMap ==
    (cm.captured /\ IsUniform(cm.rect)) =>
        /\ \A p \in DOMAIN cm.rect : cm.rect[p] >= 0
        /\ \A p \in DOMAIN cm.shifted : cm.shifted[p] = 0
        /\ ~cm.divided
        /\ cm.outcome = "cam"
        /\ Len(cm.result.vals) = cm.ah * cm.aw
        /\ \A k \in DOMAIN cm.result.vals : cm.result.vals[k] = 0

\* C12 witness: one channel whose activation is 1 in each of several cells
\* and whose gradient is 0.5 in each: the rectified map is uniform and
\* positive, and the map of zeros was returned.
C12_Witness ==
    /\ cm.captured
    /\ cm.ah * cm.aw > 1
    /\ Len(cm.act) = 1
    /\ \A p \in DOMAIN cm.act[1] : cm.act[1][p] = 1 /\ cm.grad[1][p] = 1
    /\ IsUniform(cm.rect)
    /\ cm.rect[1] > 0
    /\ \A k \in DOMAIN cm.result.vals : cm.result.vals[k] = 0

====
